---------------------------- MODULE Spec2Model ----------------------------
(***************************************************************************)
(* The Tuya BLE lock platform (custom_components/tuya_ble/lock.py):        *)
(* the static registry LOCK_TYPES, platform setup (async_setup_entry) and  *)
(* the lock entity TuyaBLELock (available, is_locked, async_lock,          *)
(* async_unlock), over the device client's datapoint store and the host    *)
(* framework's add-entities callback.                                      *)
(*                                                                         *)
(* Python values are encoded as follows: False is 0 and True is 1 (bool is *)
(* a subclass of int); the result of is_locked is one of the strings       *)
(* "None", "True", "False".                                                *)
(***************************************************************************)
EXTENDS Integers, Sequences, FiniteSets

(***************************************************************************)
(* Bounds of the model.                                                    *)
(***************************************************************************)
MaxAdapters == 2
MaxCommands == 1
MaxSetups == 1

(***************************************************************************)
(* Values.                                                                 *)
(***************************************************************************)
PyFalse == 0
PyTrue == 1
DrawerLockDpId == 33
OtherDpId == DrawerLockDpId + 1
DpIds == {DrawerLockDpId, OtherDpId}
Categories == {"ms", "jtmspro"}
ProductIds == {"gumrixyt", "xicdxood"}
Products == [category : Categories, product_id : ProductIds]
Failures == {"BleakError", "TimeoutError"}

DrawerLockProduct == [category |-> "ms", product_id |-> "gumrixyt"]

\* bool(x) of Python, for the integers that encode the stored values.
PyBool(x) == IF x # 0 THEN "True" ELSE "False"

(***************************************************************************)
(* TuyaBLELockMapping: the datapoint id and the presence of each of the    *)
(* three optional overrides (a function or None).                          *)
(***************************************************************************)
TuyaBLELockMapping ==
    [dp_id : DpIds, getter : BOOLEAN, setter : BOOLEAN, is_available : BOOLEAN]

\* The one mapping of the registry: dp_id 33, every override left at None.
DrawerLock ==
    [dp_id |-> DrawerLockDpId, getter |-> FALSE, setter |-> FALSE,
     is_available |-> FALSE]

\* LOCK_TYPES: category -> products -> ordered list of mappings.
LOCK_TYPES ==
    [c \in {"ms"} |-> [products |-> [p \in {"gumrixyt"} |-> <<DrawerLock>>]]]

(***************************************************************************)
(* The datapoint store of the device client.                               *)
(***************************************************************************)
NoDatapoint == [present |-> FALSE, type |-> "-", value |-> PyFalse]

Datapoint(type, value) == [present |-> TRUE, type |-> type, value |-> value]

\* datapoints[id]: direct lookup, no creation.
datapoints_getitem(s, id) == s[id]

\* datapoints.get_or_create(id, type, default): the store afterwards.  When
\* the store can hand out a datapoint (ok) an absent one is created with the
\* declared type and the default; otherwise the store is left as it is.
get_or_create(s, id, type, default, ok) ==
    IF ok /\ ~s[id].present
    THEN [s EXCEPT ![id] = Datapoint(type, default)]
    ELSE s

\* The value of a datapoint as written by set_value.
write_value(s, id, value) == [s EXCEPT ![id].value = value]

VARIABLES
    product,        \* data.product: the device's category and product id
    adapters,       \* the TuyaBLELock objects constructed so far
    setups,         \* the runs of async_setup_entry
    addCalls,       \* the calls of async_add_entities, each with its list
    store,          \* device.datapoints
    cmds,           \* the lock and unlock calls
    log,            \* the calls made by the commands, in order
    baseAvailable,  \* what TuyaBLEEntity.available reports
    lastQuery       \* the last property read and what it returned

vars ==
    <<product, adapters, setups, addCalls, store, cmds, log, baseAvailable,
      lastQuery>>

NoQuery ==
    [kind |-> "none", adapter |-> 0, base |-> FALSE, would |-> FALSE,
     consulted |-> FALSE, created |-> FALSE, after |-> 0, result |-> "None"]

Init ==
    /\ product \in Products
    /\ adapters = <<>>
    /\ setups = <<>>
    /\ addCalls = <<>>
    /\ store = [d \in DpIds |-> NoDatapoint]
    /\ cmds = <<>>
    /\ log = <<>>
    /\ baseAvailable \in BOOLEAN
    /\ lastQuery = NoQuery

\* The device is the drawer lock.
InitDrawerLock == Init /\ product = DrawerLockProduct

\* The device is the drawer lock and carries two lock entities, both on the
\* default paths, one for each datapoint id.
InitTwoLocks ==
    /\ product = DrawerLockProduct
    /\ adapters =
          <<[mapping |-> DrawerLock, product |-> DrawerLockProduct],
            [mapping |-> [DrawerLock EXCEPT !.dp_id = OtherDpId],
             product |-> DrawerLockProduct]>>
    /\ setups = <<>>
    /\ addCalls = <<>>
    /\ store = [d \in DpIds |-> NoDatapoint]
    /\ cmds = <<>>
    /\ log = <<>>
    /\ baseAvailable \in BOOLEAN
    /\ lastQuery = NoQuery

(***************************************************************************)
(* Platform setup.                                                         *)
(***************************************************************************)
\* LOCK_TYPES.get(category) is not None.
has_category(category) == category \in DOMAIN LOCK_TYPES

\* product_mappings with the product id ignored: the mappings of the first
\* product of the category.
product_mappings_any_product(p) ==
    IF has_category(p.category)
    THEN LOCK_TYPES[p.category].products[
            CHOOSE q \in DOMAIN LOCK_TYPES[p.category].products : TRUE]
    ELSE <<>>

\* The mappings setup instantiates: those of the exact product id under the
\* exact category, or none.
product_mappings(p) ==
    IF /\ has_category(p.category)
       /\ p.product_id \in DOMAIN LOCK_TYPES[p.category].products
    THEN LOCK_TYPES[p.category].products[p.product_id]
    ELSE <<>>

\* add_entities_calls with the callback called only for a non-empty list.
add_entities_calls_if_any(p, entities) ==
    IF has_category(p.category) /\ entities # <<>> THEN <<entities>> ELSE <<>>

\* The calls of async_add_entities one run of setup makes, given the list of
\* entities it built: none after the early return, else one with the list.
add_entities_calls(p, entities) ==
    IF has_category(p.category) THEN <<entities>> ELSE <<>>

\* TuyaBLELock.__init__
TuyaBLELock(p, mapping) == [mapping |-> mapping, product |-> p]

async_setup_entry ==
    LET ms == product_mappings(product)
        n == Len(adapters)
        entities == [i \in 1..Len(ms) |-> n + i]
        calls == add_entities_calls(product, entities)
    IN  /\ Len(setups) < MaxSetups
        /\ n + Len(ms) <= MaxAdapters
        /\ adapters' = adapters \o [i \in 1..Len(ms) |-> TuyaBLELock(product, ms[i])]
        /\ addCalls' = addCalls \o calls
        /\ setups' = Append(setups,
                [product |-> product, entities |-> entities,
                 first |-> Len(addCalls) + 1, calls |-> Len(calls)])
        /\ UNCHANGED <<product, store, cmds, log, baseAvailable, lastQuery>>

\* A lock entity constructed directly from a mapping of the caller's choice.
NewLock(mapping) ==
    /\ Len(adapters) < MaxAdapters
    /\ adapters' = Append(adapters, TuyaBLELock(product, mapping))
    /\ UNCHANGED <<product, setups, addCalls, store, cmds, log, baseAvailable,
                   lastQuery>>

(***************************************************************************)
(* The properties of the lock entity.                                      *)
(***************************************************************************)
\* available with the override asked before the base entity.
available_override_first(m, base, would) ==
    IF m.is_available
    THEN [result |-> would, consulted |-> TRUE]
    ELSE [result |-> base, consulted |-> FALSE]

\* TuyaBLELock.available, given what the base entity reports and what the
\* override would return: the result, and whether the override was called.
available(m, base, would) ==
    IF base /\ m.is_available
    THEN [result |-> would, consulted |-> TRUE]
    ELSE [result |-> base, consulted |-> FALSE]

\* is_locked with the value tested for truth together with the datapoint.
is_locked_truthy(s, m, got) ==
    IF m.getter
    THEN [result |-> got, store |-> s]
    ELSE LET datapoint == datapoints_getitem(s, m.dp_id)
         IN  [result |-> IF datapoint.present /\ datapoint.value # 0
                         THEN PyBool(datapoint.value)
                         ELSE "None",
              store |-> s]

\* is_locked reading through get_or_create instead of the direct lookup.
is_locked_creating(s, m, got) ==
    IF m.getter
    THEN [result |-> got, store |-> s]
    ELSE LET after == get_or_create(s, m.dp_id, "DT_BOOL", PyFalse, TRUE)
         IN  [result |-> PyBool(after[m.dp_id].value), store |-> after]

\* TuyaBLELock.is_locked, given what the getter override would return: the
\* result and the store as the read leaves it.
is_locked(s, m, got) ==
    IF m.getter
    THEN [result |-> got, store |-> s]
    ELSE LET datapoint == datapoints_getitem(s, m.dp_id)
         IN  [result |-> IF datapoint.present
                         THEN PyBool(datapoint.value)
                         ELSE "None",
              store |-> s]

ReadAvailable(a) ==
    \E would \in BOOLEAN :
        LET r == available(adapters[a].mapping, baseAvailable, would)
        IN  /\ lastQuery' =
                  [kind |-> "available", adapter |-> a, base |-> baseAvailable,
                   would |-> would, consulted |-> r.consulted,
                   created |-> FALSE, after |-> Len(cmds),
                   result |-> IF r.result THEN "True" ELSE "False"]
            /\ UNCHANGED <<product, adapters, setups, addCalls, store, cmds,
                           log, baseAvailable>>

ReadIsLocked(a) ==
    \E got \in {"None", "True", "False"} :
        LET r == is_locked(store, adapters[a].mapping, got)
        IN  /\ store' = r.store
            /\ lastQuery' =
                  [kind |-> "is_locked", adapter |-> a, base |-> FALSE,
                   would |-> FALSE, consulted |-> FALSE,
                   created |-> r.store # store, after |-> Len(cmds),
                   result |-> r.result]
            /\ UNCHANGED <<product, adapters, setups, addCalls, cmds, log,
                           baseAvailable>>

(***************************************************************************)
(* The commands of the lock entity.  A command's calls are logged as       *)
(* records; the store and the override are driven by them.                 *)
(***************************************************************************)
SetterCall(c, a, p, value) ==
    [cmd |-> c, op |-> "setter", adapter |-> a, product |-> p, dp |-> 0,
     type |-> "-", arg |-> value, ret |-> "None"]

GetOrCreateCall(c, a, p, id, type, default, ret) ==
    [cmd |-> c, op |-> "get_or_create", adapter |-> a, product |-> p,
     dp |-> id, type |-> type, arg |-> default, ret |-> ret]

SetValueCall(c, a, p, id, value) ==
    [cmd |-> c, op |-> "set_value", adapter |-> a, product |-> p, dp |-> id,
     type |-> "-", arg |-> value, ret |-> "None"]

\* set_locked without the return after the setter override.
set_locked_no_return(c, a, value, ok) ==
    LET m == adapters[a].mapping
        p == adapters[a].product
        first == IF m.setter THEN <<SetterCall(c, a, p, value)>> ELSE <<>>
    IN  IF ok
        THEN [calls |-> first \o
                        <<GetOrCreateCall(c, a, p, m.dp_id, "DT_BOOL",
                                          PyFalse, "datapoint"),
                          SetValueCall(c, a, p, m.dp_id, value)>>,
              pc |-> "awaiting", error |-> "-"]
        ELSE [calls |-> first \o
                        <<GetOrCreateCall(c, a, p, m.dp_id, "DT_BOOL",
                                          PyFalse, "None")>>,
              pc |-> "returned", error |-> "-"]

\* set_locked without the test of the datapoint: set_value on None raises.
set_locked_unchecked(c, a, value, ok) ==
    LET m == adapters[a].mapping
        p == adapters[a].product
    IN  IF m.setter
        THEN [calls |-> <<SetterCall(c, a, p, value)>>, pc |-> "returned",
              error |-> "-"]
        ELSE IF ok
        THEN [calls |-> <<GetOrCreateCall(c, a, p, m.dp_id, "DT_BOOL",
                                           PyFalse, "datapoint"),
                           SetValueCall(c, a, p, m.dp_id, value)>>,
              pc |-> "awaiting", error |-> "-"]
        ELSE [calls |-> <<GetOrCreateCall(c, a, p, m.dp_id, "DT_BOOL",
                                           PyFalse, "None")>>,
              pc |-> "raised", error |-> "AttributeError"]

\* set_locked with the drawer lock's datapoint id in place of the mapping's.
set_locked_fixed_dp(c, a, value, ok) ==
    LET m == adapters[a].mapping
        p == adapters[a].product
    IN  IF m.setter
        THEN [calls |-> <<SetterCall(c, a, p, value)>>, pc |-> "returned",
              error |-> "-"]
        ELSE IF ok
        THEN [calls |-> <<GetOrCreateCall(c, a, p, DrawerLockDpId, "DT_BOOL",
                                           PyFalse, "datapoint"),
                           SetValueCall(c, a, p, DrawerLockDpId, value)>>,
              pc |-> "awaiting", error |-> "-"]
        ELSE [calls |-> <<GetOrCreateCall(c, a, p, DrawerLockDpId, "DT_BOOL",
                                           PyFalse, "None")>>,
              pc |-> "returned", error |-> "-"]

\* The body async_lock and async_unlock share, for the value they set, as
\* far as the first suspension: the calls made and where the call stands.
\* ok: get_or_create returns a datapoint (else None).
set_locked(c, a, value, ok) ==
    LET m == adapters[a].mapping
        p == adapters[a].product
    IN  IF m.setter
        THEN [calls |-> <<SetterCall(c, a, p, value)>>, pc |-> "returned",
              error |-> "-"]
        ELSE IF ok
        THEN [calls |-> <<GetOrCreateCall(c, a, p, m.dp_id, "DT_BOOL",
                                           PyFalse, "datapoint"),
                           SetValueCall(c, a, p, m.dp_id, value)>>,
              pc |-> "awaiting", error |-> "-"]
        ELSE [calls |-> <<GetOrCreateCall(c, a, p, m.dp_id, "DT_BOOL",
                                           PyFalse, "None")>>,
              pc |-> "returned", error |-> "-"]

async_lock(c, a, ok) == set_locked(c, a, PyTrue, ok)

\* async_unlock as a copy of async_lock with the value left at True.
async_unlock_sets_true(c, a, ok) == set_locked(c, a, PyTrue, ok)

async_unlock(c, a, ok) == set_locked(c, a, PyFalse, ok)

\* The await of set_value with its failure caught and dropped.
await_set_value_suppressed(sv) ==
    [ready |-> sv # "inflight", pc |-> "returned", error |-> "-"]

\* The await of set_value: the command goes on once the request is over,
\* returning when it succeeded and raising its failure when it failed.
await_set_value(sv) ==
    [ready |-> sv # "inflight",
     pc |-> IF sv \in Failures THEN "raised" ELSE "returned",
     error |-> IF sv \in Failures THEN sv ELSE "-"]

\* The effect of one logged call on the store.  eager: set_value stores the
\* value when called rather than when acknowledged.
apply_call(s, e, eager) ==
    CASE e.op = "get_or_create" ->
            get_or_create(s, e.dp, e.type, e.arg, e.ret = "datapoint")
      [] e.op = "set_value" ->
            IF eager THEN write_value(s, e.dp, e.arg) ELSE s
      [] OTHER -> s

RECURSIVE apply_calls(_, _, _)
apply_calls(s, calls, eager) ==
    IF calls = <<>> THEN s
    ELSE apply_calls(apply_call(s, Head(calls), eager), Tail(calls), eager)

IsSetValue(e) == e.op = "set_value"

\* limit: the number of commands the model follows.
Start(a, kind, limit) ==
    \E ok \in BOOLEAN, eager \in BOOLEAN :
        LET c == Len(cmds) + 1
            r == IF kind = "lock" THEN async_lock(c, a, ok)
                 ELSE async_unlock(c, a, ok)
            sets == SelectSeq(r.calls, IsSetValue)
        IN  /\ Len(cmds) < limit
            /\ store' = apply_calls(store, r.calls, eager)
            /\ log' = log \o r.calls
            /\ cmds' = Append(cmds,
                    [adapter |-> a, kind |-> kind, pc |-> r.pc, error |-> r.error,
                     sv |-> IF sets = <<>> THEN "none" ELSE "inflight"])
            /\ UNCHANGED <<product, adapters, setups, addCalls, baseAvailable,
                           lastQuery>>

\* The request a command's set_value call started.
Request(c) ==
    LET IsMine(e) == e.op = "set_value" /\ e.cmd = c
    IN  Head(SelectSeq(log, IsMine))

\* The device client ends a set_value request, acknowledged or failed.
SetValueEnds(c, outcome) ==
    /\ cmds[c].sv = "inflight"
    /\ cmds' = [cmds EXCEPT ![c].sv = outcome]
    /\ store' = IF outcome = "ok"
                THEN write_value(store, Request(c).dp, Request(c).arg)
                ELSE store
    /\ UNCHANGED <<product, adapters, setups, addCalls, log, baseAvailable,
                   lastQuery>>

\* The command goes on after its await.
Resume(c) ==
    LET r == await_set_value(cmds[c].sv)
    IN  /\ cmds[c].pc = "awaiting"
        /\ r.ready
        /\ cmds' = [cmds EXCEPT ![c].pc = r.pc, ![c].error = r.error]
        /\ UNCHANGED <<product, adapters, setups, addCalls, store, log,
                       baseAvailable, lastQuery>>

(***************************************************************************)
(* The environment: the device reports a value, connectivity changes.      *)
(***************************************************************************)
DeviceReports(d, v) ==
    /\ store' = [store EXCEPT ![d] = Datapoint("DT_BOOL", v)]
    /\ UNCHANGED <<product, adapters, setups, addCalls, cmds, log,
                   baseAvailable, lastQuery>>

ConnectivityChanges ==
    /\ baseAvailable' = ~baseAvailable
    /\ UNCHANGED <<product, adapters, setups, addCalls, store, cmds, log,
                   lastQuery>>

\* The mappings a lock is constructed from when only its reads are observed
\* (the setter override plays no part in them) and when only its commands
\* are (the other two overrides play no part).
ReadMappings == {m \in TuyaBLELockMapping : ~m.setter}
CommandMappings == {m \in TuyaBLELockMapping : ~m.getter /\ ~m.is_available}

Reads ==
    \/ \E a \in 1..Len(adapters) : ReadAvailable(a)
    \/ \E a \in 1..Len(adapters) : ReadIsLocked(a)
    \/ ConnectivityChanges

Commands(limit) ==
    \/ \E a \in 1..Len(adapters), kind \in {"lock", "unlock"} :
          Start(a, kind, limit)
    \/ \E c \in 1..Len(cmds), o \in {"ok"} \cup Failures : SetValueEnds(c, o)
    \/ \E c \in 1..Len(cmds) : Resume(c)

Reports == \E d \in DpIds, v \in {PyFalse, PyTrue} : DeviceReports(d, v)

\* Setup and the properties of the entities.
Next ==
    \/ async_setup_entry
    \/ \E m \in ReadMappings : NewLock(m)
    \/ Reads
    \/ Reports

Spec == Init /\ [][Next]_vars

\* The commands of the entities, one after the other.
NextCommands ==
    \/ \E m \in CommandMappings : NewLock(m)
    \/ Commands(MaxCommands)
    \/ Reports

SpecCommands == InitDrawerLock /\ [][NextCommands]_vars

\* The commands of two entities on the default paths, and the reads of
\* is_locked.
NextLocked ==
    \/ Commands(MaxCommands)
    \/ \E a \in 1..Len(adapters) : ReadIsLocked(a)
    \/ Reports

SpecLocked == InitTwoLocks /\ [][NextLocked]_vars

\* The commands of two entities on the default paths, one more than
\* MaxCommands of them so that commands are in flight together.
NextConcurrent ==
    \/ Commands(MaxCommands + 1)
    \/ Reports

SpecConcurrent == InitTwoLocks /\ [][NextConcurrent]_vars

(***************************************************************************)
(* Vocabulary of the properties.                                           *)
(***************************************************************************)
CallsOf(c) ==
    LET IsOfCmd(e) == e.cmd = c
    IN  SelectSeq(log, IsOfCmd)

SetValuesOf(c) == SelectSeq(CallsOf(c), IsSetValue)

MappingOf(c) == adapters[cmds[c].adapter].mapping

ValueOf(c) == IF cmds[c].kind = "lock" THEN PyTrue ELSE PyFalse

DefaultPath(c) == ~MappingOf(c).setter

\* The command's first call is a get_or_create for its mapping's id with
\* the boolean type and the default False.
FirstIsGetOrCreate(c) ==
    /\ Len(CallsOf(c)) >= 1
    /\ CallsOf(c)[1].op = "get_or_create"
    /\ CallsOf(c)[1].dp = MappingOf(c).dp_id
    /\ CallsOf(c)[1].type = "DT_BOOL"
    /\ CallsOf(c)[1].arg = PyFalse

\* The command's second and last call is a set_value of its value on the
\* datapoint of its mapping's id.
ThenOneSetValue(c) ==
    /\ Len(CallsOf(c)) = 2
    /\ CallsOf(c)[2].op = "set_value"
    /\ CallsOf(c)[2].dp = MappingOf(c).dp_id
    /\ CallsOf(c)[2].arg = ValueOf(c)

\* get_or_create returned a datapoint to the command.
Obtained(c) ==
    /\ DefaultPath(c)
    /\ Len(CallsOf(c)) >= 1
    /\ CallsOf(c)[1].op = "get_or_create"
    /\ CallsOf(c)[1].ret = "datapoint"

\* get_or_create returned None to the command.
NotObtained(c) ==
    /\ DefaultPath(c)
    /\ Len(CallsOf(c)) >= 1
    /\ CallsOf(c)[1].op = "get_or_create"
    /\ CallsOf(c)[1].ret = "None"

Finished(c) == cmds[c].pc \in {"returned", "raised"}

\* The step starts a command: its number.
Started == Len(cmds') = Len(cmds) + 1

\* What is_locked is to return for the datapoint id d of the store s.
Expected(s, d) ==
    IF ~s[d].present THEN "None"
    ELSE IF s[d].value = PyTrue THEN "True"
    ELSE "False"

(***************************************************************************)
(* C1 as stated: every lock or unlock command of an adapter without a      *)
(* setter override makes exactly two calls, get_or_create(id, DT_BOOL,     *)
(* False) and then set_value(True) for lock, set_value(False) for unlock.  *)
(***************************************************************************)
C1_AlwaysSetsValue ==
    \A c \in 1..Len(cmds) :
        DefaultPath(c) => FirstIsGetOrCreate(c) /\ ThenOneSetValue(c)

(***************************************************************************)
(* C1 amended: every such command makes exactly one get_or_create(id,      *)
(* DT_BOOL, False) call first; when that returned a datapoint it is        *)
(* followed by exactly one set_value (True for lock, False for unlock) on  *)
(* that datapoint, and when it returned None no other call is made.        *)
(***************************************************************************)
C1_SetsValueWhenObtained ==
    \A c \in 1..Len(cmds) :
        DefaultPath(c) =>
            /\ FirstIsGetOrCreate(c)
            /\ IF Obtained(c) THEN ThenOneSetValue(c) ELSE Len(CallsOf(c)) = 1

C1_Witness ==
    \E c \in 1..Len(cmds) :
        /\ cmds[c].kind = "unlock"
        /\ Obtained(c)
        /\ ThenOneSetValue(c)
        /\ cmds[c].pc = "returned"
        /\ store[MappingOf(c).dp_id].value = PyFalse

(***************************************************************************)
(* C2: for an adapter without a getter override, in every state of the     *)
(* store is_locked returns None when the datapoint of the mapping's id is  *)
(* absent, True when it holds true and False when it holds false; and so   *)
(* does every read made of it.                                             *)
(***************************************************************************)
C2_IsLockedReflectsStore ==
    /\ [](\A a \in 1..Len(adapters) :
            ~adapters[a].mapping.getter =>
                \A got \in {"None", "True", "False"} :
                    is_locked(store, adapters[a].mapping, got).result
                        = Expected(store, adapters[a].mapping.dp_id))
    /\ [][(lastQuery' # lastQuery /\ lastQuery'.kind = "is_locked"
              /\ ~adapters[lastQuery'.adapter].mapping.getter)
            => lastQuery'.result
                  = Expected(store, adapters[lastQuery'.adapter].mapping.dp_id)]_vars

C2_Witness ==
    /\ lastQuery.kind = "is_locked"
    /\ ~adapters[lastQuery.adapter].mapping.getter
    /\ lastQuery.result = "False"
    /\ store[adapters[lastQuery.adapter].mapping.dp_id].present
    /\ \E d \in DpIds : store[d].present /\ store[d].value = PyTrue

(***************************************************************************)
(* C3: available returns false whenever the base entity reports            *)
(* unavailable, with or without an override and without calling it; when   *)
(* the base reports available it returns the override's result if there is *)
(* an override, and true otherwise.                                        *)
(***************************************************************************)
C3_Available ==
    lastQuery.kind = "available" =>
        LET m == adapters[lastQuery.adapter].mapping
        IN  /\ ~lastQuery.base =>
                    lastQuery.result = "False" /\ ~lastQuery.consulted
            /\ lastQuery.base /\ m.is_available =>
                    /\ lastQuery.consulted
                    /\ lastQuery.result
                          = (IF lastQuery.would THEN "True" ELSE "False")
            /\ lastQuery.base /\ ~m.is_available =>
                    lastQuery.result = "True" /\ ~lastQuery.consulted

C3_Witness ==
    /\ lastQuery.kind = "available"
    /\ adapters[lastQuery.adapter].mapping.is_available
    /\ ~lastQuery.base
    /\ lastQuery.would
    /\ lastQuery.result = "False"

(***************************************************************************)
(* C4: a lock or unlock command of an adapter with a setter override calls *)
(* the override once with (adapter, product, True or False), makes no      *)
(* other call, returns, and leaves the store as it was.                    *)
(***************************************************************************)
C4_SetterOnly ==
    /\ [](\A c \in 1..Len(cmds) :
            MappingOf(c).setter =>
                /\ CallsOf(c) = <<SetterCall(c, cmds[c].adapter,
                                             adapters[cmds[c].adapter].product,
                                             ValueOf(c))>>
                /\ cmds[c].pc = "returned"
                /\ cmds[c].sv = "none")
    /\ [][(Started /\ adapters[cmds'[Len(cmds')].adapter].mapping.setter)
            => store' = store /\ Len(log') = Len(log) + 1]_vars

C4_Witness ==
    \E c \in 1..Len(cmds) :
        /\ MappingOf(c).setter
        /\ cmds[c].kind = "lock"
        /\ cmds[c].pc = "returned"
        /\ Len(log) = 1
        /\ ~store[MappingOf(c).dp_id].present

(***************************************************************************)
(* C5: each run of setup constructs one adapter per mapping registered     *)
(* for exactly the device's category and product id, in order: none for a  *)
(* pair the registry does not hold, and for ("ms", "gumrixyt") one         *)
(* adapter, bound to datapoint id 33.                                      *)
(***************************************************************************)
C5_SetupEntities ==
    \A i \in 1..Len(setups) :
        LET s == setups[i]
        IN  IF s.product.category = "ms" /\ s.product.product_id = "gumrixyt"
            THEN /\ Len(s.entities) = 1
                 /\ adapters[s.entities[1]].mapping.dp_id = 33
                 /\ adapters[s.entities[1]].mapping = DrawerLock
                 /\ adapters[s.entities[1]].product = s.product
            ELSE s.entities = <<>>

C5_Witness ==
    /\ Len(setups) = 1
    /\ Len(setups[1].entities) = 1
    /\ Len(adapters) = 2
    /\ adapters[setups[1].entities[1]].mapping.dp_id = 33

(***************************************************************************)
(* C6 as stated: every run of setup, whatever the category and product     *)
(* id, calls async_add_entities exactly once, with the list of the         *)
(* adapters it constructed.                                                *)
(***************************************************************************)
C6_AlwaysAddsOnce ==
    \A i \in 1..Len(setups) :
        /\ setups[i].calls = 1
        /\ addCalls[setups[i].first] = setups[i].entities

(***************************************************************************)
(* C6 amended: a run of setup for a device whose category the registry     *)
(* holds calls async_add_entities exactly once, with the full list of the  *)
(* adapters it constructed (empty when the product id is not registered);  *)
(* a run for a category the registry does not hold returns without calling *)
(* it.                                                                     *)
(***************************************************************************)
C6_AddsOnceForKnownCategory ==
    /\ \A i \in 1..Len(setups) :
          IF setups[i].product.category = "ms"
          THEN /\ setups[i].calls = 1
               /\ addCalls[setups[i].first] = setups[i].entities
          ELSE setups[i].calls = 0
    /\ Len(addCalls) <= Len(setups)

C6_Witness ==
    /\ Len(setups) = 1
    /\ setups[1].product = [category |-> "ms", product_id |-> "xicdxood"]
    /\ addCalls = << <<>> >>

(***************************************************************************)
(* C7: when get_or_create returns None to a command of an adapter without  *)
(* a setter override, the command makes no set_value call, raises nothing, *)
(* returns, and leaves the store as it was.                                *)
(***************************************************************************)
C7_SilentNoOp ==
    /\ [](\A c \in 1..Len(cmds) :
            NotObtained(c) =>
                /\ Len(CallsOf(c)) = 1
                /\ SetValuesOf(c) = <<>>
                /\ cmds[c].pc = "returned"
                /\ cmds[c].error = "-"
                /\ cmds[c].sv = "none")
    /\ [][(Started /\ log' # log /\ log'[Len(log) + 1].op = "get_or_create"
              /\ log'[Len(log) + 1].ret = "None")
            => store' = store]_vars

C7_Witness ==
    \E c \in 1..Len(cmds) :
        /\ NotObtained(c)
        /\ cmds[c].pc = "returned"
        /\ ~store[MappingOf(c).dp_id].present

(***************************************************************************)
(* C8: a command that issued a set_value is over only once that request is *)
(* over; it returns when the request succeeded and raises the request's    *)
(* own failure when it failed; it issues one set_value only; and no        *)
(* command raises anything else.                                           *)
(***************************************************************************)
C8_AwaitsAndPropagates ==
    \A c \in 1..Len(cmds) :
        /\ Len(SetValuesOf(c)) <= 1
        /\ (SetValuesOf(c) # <<>> /\ Finished(c)) =>
              /\ cmds[c].sv \in {"ok"} \cup Failures
              /\ cmds[c].sv = "ok" => cmds[c].pc = "returned" /\ cmds[c].error = "-"
              /\ cmds[c].sv \in Failures =>
                    cmds[c].pc = "raised" /\ cmds[c].error = cmds[c].sv
        /\ cmds[c].pc = "raised" =>
              SetValuesOf(c) # <<>> /\ cmds[c].error = cmds[c].sv
                  /\ cmds[c].sv \in Failures

C8_Witness ==
    \E c \in 1..Len(cmds) :
        /\ cmds[c].pc = "raised"
        /\ cmds[c].error = "TimeoutError"
        /\ Len(SetValuesOf(c)) = 1

(***************************************************************************)
(* C9: every store call of a command is on the datapoint of its own        *)
(* adapter's mapping, and a step of a command changes the store at that    *)
(* datapoint id only, whatever other commands are in flight.               *)
(***************************************************************************)
C9_OwnDatapointOnly ==
    /\ [](\A i \in 1..Len(log) :
            /\ log[i].adapter = cmds[log[i].cmd].adapter
            /\ log[i].op \in {"get_or_create", "set_value"} =>
                  log[i].dp = adapters[log[i].adapter].mapping.dp_id)
    /\ [][\A d \in DpIds :
            (store'[d] # store[d] /\ cmds' # cmds) =>
                \E c \in 1..Len(cmds') :
                    /\ c > Len(cmds) \/ cmds'[c] # cmds[c]
                    /\ adapters[cmds'[c].adapter].mapping.dp_id = d]_vars

C9_Witness ==
    \E c, d \in 1..Len(cmds) :
        /\ MappingOf(c).dp_id # MappingOf(d).dp_id
        /\ cmds[c].sv = "inflight" /\ cmds[d].sv = "inflight"
        /\ cmds[c].kind = "lock" /\ cmds[d].kind = "unlock"
        /\ store[MappingOf(c).dp_id].value # store[MappingOf(d).dp_id].value

(***************************************************************************)
(* C10: a read of is_locked creates no datapoint; once a command of an     *)
(* adapter has obtained the datapoint from get_or_create, the datapoint    *)
(* is present as a boolean one and is_locked of that adapter is True or    *)
(* False, not None, in every later state and for every later read, the     *)
(* set_value being in flight, acknowledged or failed.                      *)
(***************************************************************************)
C10_ReadNeverCreates ==
    /\ lastQuery.kind = "is_locked" => ~lastQuery.created
    /\ \A c \in 1..Len(cmds) :
          Obtained(c) =>
              /\ store[MappingOf(c).dp_id].present
              /\ store[MappingOf(c).dp_id].type = "DT_BOOL"
              /\ is_locked(store, MappingOf(c), "None").result
                    \in {"True", "False"}
              /\ (/\ lastQuery.kind = "is_locked"
                  /\ lastQuery.adapter = cmds[c].adapter
                  /\ lastQuery.after >= c) => lastQuery.result # "None"

C10_Witness ==
    \E c \in 1..Len(cmds) :
        /\ Obtained(c)
        /\ cmds[c].pc = "raised"
        /\ lastQuery.kind = "is_locked"
        /\ lastQuery.adapter = cmds[c].adapter
        /\ lastQuery.after >= c
        /\ lastQuery.result = "False"
        /\ \A d \in 1..Len(cmds) : cmds[d].adapter = cmds[c].adapter
=============================================================================
